---- MODULE Spec2Model ----
(***************************************************************************)
(* Master Kilominx: the puzzle model (solver/kilominx_model.py), the state *)
(* validator (solver/state_validator.py), the move notation                *)
(* (solver/move_notation.py), the windows of ui/ and the configuration     *)
(* (utils/config.py).  Each part has a specification of its own: Spec and  *)
(* StickerSpec, NotationSpec, WindowSpec, ImageSpec, DisplaySpec and       *)
(* ConfigSpec.                                                             *)
(*                                                                         *)
(* Python objects are kept in a heap, because the program hands the same   *)
(* list objects from one dict to another: `lists` holds the sticker lists  *)
(* and `dicts` the dicts that map a face key to a list reference.  A       *)
(* reference is a positive integer; 0 is None.                             *)
(*                                                                         *)
(* A move token is a Python string, modelled as the sequence of its        *)
(* characters, so that len(move), move[0] and move[1] are what they are in *)
(* the code.  Colours are the integer identifiers of the solved state.     *)
(***************************************************************************)
EXTENDS Integers, Sequences, FiniteSets, TLC

VARIABLES
    heap,       \* lists: list reference -> sequence of colours;
                \* dicts: dict reference -> [face key -> list reference]
    d,          \* the caller's dict given to MasterKilominx(d); 0 for MasterKilominx()
    m,          \* self.state of the current MasterKilominx instance
    m1,         \* self.state of the receiver of the last apply_move call; 0 before any
    pre,        \* contents of the receiver when the last apply_move was entered
    start,      \* contents of the instance right after construction
    moves,      \* the tokens given to apply_move since construction, in order
    raised,     \* the exception the last apply_move call ended with, or "none"
    \* MoveNotation (solver/move_notation.py)
    algorithm,  \* the argument of the MoveNotation call: a str or a list of tokens
    npc,        \* where the MoveNotation call is: "idle", "parsed", "described",
                \* "loop", "returned"
    parts,      \* what parse_algorithm or algorithm_to_human_readable returned
    smoves,     \* the local list `moves` of simplify_algorithm
    si,         \* the local index `i` of simplify_algorithm
    combined,   \* the last call of _combine_moves: its arguments and its result
    \* MasterKilominxColorPicker (ui/color_picker.py)
    face_widgets,   \* face -> the colours of the stickers of its PentagonalFaceWidget
    current_color,
    current_face,
    \* MainWindow (ui/main_window.py) and its solution tab (ui/solution_display.py)
    cube_state,     \* self.cube_state; the dict without keys stands for None
    solution,       \* self.solution_steps: has is hasattr(self, 'solution_steps')
    display,        \* the solution tab: the fields display_solution sets, the
                    \* current row of steps_list and the two buttons' enabled flags
    enabled,        \* the solution tab and the save action are enabled
    message,        \* the title of the message box of the last handler, or "none"
    solver_calls,   \* the calls of solve_kilominx the last handler made
    \* ImageInputWidget (ui/image_input.py)
    image_input,    \* image_path, the Process button, the ImageProcessorThread
                    \* objects made so far and the signals they have sent
    \* utils/config.py
    config_heap     \* the dict objects of DEFAULT_CONFIG and of the Config
                    \* instances: reference -> [key -> value], a value being a
                    \* plain value or the reference of a nested dict

kilominxVars == <<heap, d, m, m1, pre, start, moves, raised>>

notationVars == <<algorithm, npc, parts, smoves, si, combined>>

windowVars == <<face_widgets, current_color, current_face, cube_state, solution,
                display, enabled, message, solver_calls,
               image_input>>

configVars == <<config_heap>>

vars == <<kilominxVars, notationVars, windowVars, configVars>>

----------------------------------------------------------------------------
(* Bounds of the model.                                                    *)

\* longest sequence of arbitrary tokens played on one instance
MaxMoves == 1
\* longest sequence of tokens that all name one face code
MaxTurns == 2
\* longest repetition of one token
MaxRun == 5
\* longest algorithm string given to MoveNotation, in characters
MaxChars == 4
\* longest list of tokens given to simplify_algorithm
MaxTokens == 3
\* most stickers of the colour picker that hold a colour other than the default
MaxClicks == 1
\* longest move sequence the solver's search tries
MaxSolution == 1
\* the number of steps of a solution given to display_solution
MaxSteps == 2
\* the number of ImageProcessorThread objects made
MaxThreads == 2
\* the number of Config instances made
MaxConfigs == 2

----------------------------------------------------------------------------
(* Face enumeration and program constants.                                 *)

stickers_per_face == 16

\* the largest face key of the dicts of the model (12 is a face too many)
MaxKey == 12

grid_size == 4

\* Face: member name (as characters) at position value + 1
Face == << <<"F">>, <<"U">>, <<"R">>, <<"D">>, <<"L">>,
           <<"B", "R">>, <<"B", "L">>, <<"B", "U">>, <<"B", "D">>,
           <<"B">>, <<"U", "L">>, <<"U", "R">> >>

FaceValues == {v - 1 : v \in DOMAIN Face}

Range(f) == {f[x] : x \in DOMAIN f}

\* [c] * n
Repeat(c, n) == [i \in 1..n |-> c]

----------------------------------------------------------------------------
(* The heap.  `top` is the last reference given out; a new object gets the *)
(* next ones.                                                              *)

Heap(ls, ds, t) == [lists |-> ls, dicts |-> ds, top |-> t]

EmptyHeap == Heap(<<>>, <<>>, 0)

\* the contents of the dict at reference r: face key -> sequence of colours
Deref(H, r) == [k \in DOMAIN H.dicts[r] |-> H.lists[H.dicts[r][k]]]

\* a new dict {k: v for k, v in content.items()} of new lists; the list of
\* key k gets reference top + 2 + k
AllocState(H, content) ==
    LET K == DOMAIN content
        r == H.top + 1
    IN  [H   |-> Heap([x \in {r + 1 + k : k \in K} |-> content[x - r - 1]] @@ H.lists,
                      (r :> [k \in K |-> r + 1 + k]) @@ H.dicts,
                      r + 1 + MaxKey),
         ref |-> r]

\* garbage collection: what no root reaches is dropped
Collect(H, roots) ==
    LET D == roots \ {0}
        L == UNION {Range(H.dicts[r]) : r \in D}
    IN  Heap([x \in L |-> H.lists[x]], [r \in D |-> H.dicts[r]], H.top)

----------------------------------------------------------------------------
(* MasterKilominx.__init__                                                 *)

\* state is None: 16 stickers of the face's own value on each of the 12 faces
SolvedState == [f \in FaceValues |-> Repeat(f, stickers_per_face)]

\* state given (integer keys): self.state = {} and self.state[face_idx] =
\* face_colors, the caller's own list objects
NewKilominx(H, dref) ==
    [H   |-> Heap(H.lists, ((H.top + 1) :> H.dicts[dref]) @@ H.dicts, H.top + 1),
     ref |-> H.top + 1]

----------------------------------------------------------------------------
(* MasterKilominx._parse_move                                              *)

\* Face[face_name].value, and Face.F.value on KeyError
FaceLookup(face_name) ==
    IF \E v \in DOMAIN Face : Face[v] = face_name
    THEN (CHOOSE v \in DOMAIN Face : Face[v] = face_name) - 1
    ELSE 0

parse_move(move) ==
    IF Len(move) = 1
    THEN [raised |-> "none", face |-> FaceLookup(move), direction |-> 1]
    ELSE IF Len(move) = 2
    THEN IF move[2] = "'"
         THEN [raised |-> "none", face |-> FaceLookup(<<move[1]>>), direction |-> -1]
         ELSE IF move[2] = "2"
         THEN [raised |-> "none", face |-> FaceLookup(<<move[1]>>), direction |-> 2]
         ELSE [raised |-> "none", face |-> FaceLookup(move), direction |-> 1]
    ELSE IF Len(move) = 0
    THEN [raised |-> "IndexError", face |-> 0, direction |-> 0]   \* move[0] of ""
    ELSE [raised |-> "none", face |-> FaceLookup(<<move[1]>>), direction |-> 1]

----------------------------------------------------------------------------
(* MasterKilominx._rotate_grid and _rotate_face                            *)

\* numpy.rot90(array, k=1): one quarter turn counter-clockwise
Rot90Once(a) ==
    [i \in 1..grid_size |-> [j \in 1..grid_size |-> a[j][grid_size + 1 - i]]]

RECURSIVE Rot90(_, _)
Rot90(a, k) == IF k % 4 = 0 THEN a ELSE Rot90Once(Rot90(a, (k % 4) - 1))

rotate_grid(grid, direction) ==
    IF direction = 1 THEN Rot90(grid, 3)
    ELSE IF direction = -1 THEN Rot90(grid, 1)
    ELSE IF direction = 2 THEN Rot90(grid, 2)
    ELSE grid

\* the turn with sticker_idx = row * 4, the column forgotten
RotatedStickersNoCol(face_stickers, direction) ==
    LET grid == [row \in 1..grid_size |-> [col \in 1..grid_size |->
                    face_stickers[(row - 1) * grid_size + 1]]]
        rotated_grid == rotate_grid(grid, direction)
    IN  [i \in 1..(grid_size * grid_size) |->
            rotated_grid[((i - 1) \div grid_size) + 1][((i - 1) % grid_size) + 1]]

\* the turn with the last row of the rotated grid left out of the list
RotatedStickersShort(face_stickers, direction) ==
    LET grid == [row \in 1..grid_size |-> [col \in 1..grid_size |->
                    face_stickers[(row - 1) * grid_size + col]]]
        rotated_grid == rotate_grid(grid, direction)
    IN  [i \in 1..(grid_size * (grid_size - 1)) |->
            rotated_grid[((i - 1) \div grid_size) + 1][((i - 1) % grid_size) + 1]]

\* the 16 stickers after the turn: grid built row by row, rotated, flattened
RotatedStickers(face_stickers, direction) ==
    LET grid == [row \in 1..grid_size |-> [col \in 1..grid_size |->
                    face_stickers[(row - 1) * grid_size + col]]]
        rotated_grid == rotate_grid(grid, direction)
    IN  [i \in 1..(grid_size * grid_size) |->
            rotated_grid[((i - 1) \div grid_size) + 1][((i - 1) % grid_size) + 1]]

\* rebinds state[face_idx], in the dict at dref, to a new list; the adjacent
\* faces are not touched (step 2 of the method is comments only)
rotate_face(H, dref, face_idx, direction) ==
    IF face_idx \notin DOMAIN H.dicts[dref]
    THEN [H |-> H, raised |-> "KeyError"]
    ELSE IF Len(H.lists[H.dicts[dref][face_idx]]) < grid_size * grid_size
    THEN [H |-> H, raised |-> "IndexError"]
    ELSE [H |-> Heap(((H.top + 1) :>
                        RotatedStickers(H.lists[H.dicts[dref][face_idx]], direction))
                        @@ H.lists,
                     [H.dicts EXCEPT ![dref][face_idx] = H.top + 1],
                     H.top + 1),
          raised |-> "none"]

----------------------------------------------------------------------------
(* MasterKilominx.apply_move                                               *)

\* new_state = self.state, no copy made
CopyStateShared(H, dref) == [H |-> H, ref |-> dref]

\* new_state = {k: v.copy() for k, v in self.state.items()}
CopyState(H, dref) == AllocState(H, Deref(H, dref))

\* the heap after self.apply_move(move), the exception raised, and the
\* self.state of the returned instance (0 when the call raised)
apply_move(H, self, move) ==
    LET parsed == parse_move(move)
        copied == CopyState(H, self)
        turned == rotate_face(copied.H, copied.ref, parsed.face, parsed.direction)
        made   == NewKilominx(turned.H, copied.ref)
    IN  IF parsed.raised # "none"
        THEN [H |-> H, raised |-> parsed.raised, ref |-> 0]
        ELSE IF turned.raised # "none"
        THEN [H |-> turned.H, raised |-> turned.raised, ref |-> 0]
        ELSE [H |-> made.H, raised |-> "none", ref |-> made.ref]

----------------------------------------------------------------------------
(* MasterKilominx.is_solved                                                *)

tolerance == 10

\* _colors_different for two numbers: the simple numeric comparison
colors_different(color1, color2) ==
    (IF color1 >= color2 THEN color1 - color2 ELSE color2 - color1) > tolerance

\* is_solved on the contents of self.state: a face without stickers is
\* skipped, every other sticker is compared with the first of its face
is_solved(state) ==
    \A face_idx \in DOMAIN state :
        state[face_idx] = <<>>
        \/ \A i \in 2..Len(state[face_idx]) :
               ~colors_different(state[face_idx][1], state[face_idx][i])

----------------------------------------------------------------------------
(* MasterKilominx._init_adjacency: only the front face has an entry.       *)

adjacency ==
    (0 :> << <<1, "bottom">>, <<2, "left">>, <<3, "top">>, <<4, "right">>,
             <<11, "bottom-left">> >>)

----------------------------------------------------------------------------
(* validate_kilominx_state.  A dict is walked in the order its keys were   *)
(* inserted, which for the dicts of the model is ascending key order.      *)

\* color_counter after the stickers of one more list: a colour not yet a
\* key is inserted where it first occurs, and every occurrence is counted
CountList(stickers, counter) ==
    LET first == {i \in DOMAIN stickers :
                    /\ stickers[i] \notin DOMAIN counter.count
                    /\ \A j \in 1..(i - 1) : stickers[j] # stickers[i]}
        nth(n) == CHOOSE i \in first : Cardinality({j \in first : j <= i}) = n
        occurs(c) == Cardinality({i \in DOMAIN stickers : stickers[i] = c})
    IN  [keys  |-> counter.keys \o [n \in 1..Cardinality(first) |-> stickers[nth(n)]],
         count |-> [c \in DOMAIN counter.count \cup {stickers[i] : i \in first} |->
                        (IF c \in DOMAIN counter.count THEN counter.count[c] ELSE 0)
                        + occurs(c)]]

RECURSIVE CountColors(_, _, _)
\* color_counter after all_stickers, the faces' lists from key k on, one
\* after the other
CountColors(state, k, counter) ==
    IF k > MaxKey THEN counter
    ELSE CountColors(state, k + 1,
            IF k \in DOMAIN state THEN CountList(state[k], counter) ELSE counter)

\* the first of a set of keys or positions in the order of a walk
First(S) == CHOOSE k \in S : \A j \in S : k <= j

center_indices == <<5, 6, 9, 10>>

\* the centre check with index 5 left out of center_indices
InconsistentCentersThree(state) ==
    {face_idx \in DOMAIN state :
        Cardinality({state[face_idx][center_indices[i] + 1] :
                        i \in DOMAIN center_indices \ {1}}) > 1}

\* 5.: the faces whose centre stickers are not of one colour
InconsistentCenters(state) ==
    {face_idx \in DOMAIN state :
        Cardinality({state[face_idx][center_indices[i] + 1] :
                        i \in DOMAIN center_indices}) > 1}

\* the validator with check 2. (stickers per face) run before check 1.
validate_stickers_first(state) ==
    LET WrongLen(f) == Len(state[f]) # 16
        counter == CountColors(state, 0, [keys |-> <<>>, count |-> <<>>])
        WrongCount(i) == counter.count[counter.keys[i]] # 16
        bad == InconsistentCenters(state)
    IN  IF \E f \in DOMAIN state : WrongLen(f)
        THEN LET f == First({g \in DOMAIN state : WrongLen(g)})
             IN  [valid |-> FALSE, reason |-> <<"stickers", f, Len(state[f])>>]
        ELSE IF Cardinality(DOMAIN state) # 12
        THEN [valid |-> FALSE, reason |-> <<"faces", Cardinality(DOMAIN state)>>]
        ELSE IF Len(counter.keys) # 12
        THEN [valid |-> FALSE, reason |-> <<"colors", Len(counter.keys)>>]
        ELSE IF \E i \in DOMAIN counter.keys : WrongCount(i)
        THEN LET i == First({j \in DOMAIN counter.keys : WrongCount(j)})
             IN  [valid |-> FALSE,
                  reason |-> <<"count", counter.keys[i], counter.count[counter.keys[i]]>>]
        ELSE IF bad # {}
        THEN [valid |-> FALSE,
              reason |-> <<"centers", First(bad)>>]
        ELSE [valid |-> TRUE, reason |-> <<"valid">>]

validate_kilominx_state(state) ==
    LET WrongLen(f) == Len(state[f]) # 16
        counter == CountColors(state, 0, [keys |-> <<>>, count |-> <<>>])
        WrongCount(i) == counter.count[counter.keys[i]] # 16
        bad == InconsistentCenters(state)
    IN  IF Cardinality(DOMAIN state) # 12
        THEN [valid |-> FALSE, reason |-> <<"faces", Cardinality(DOMAIN state)>>]
        ELSE IF \E f \in DOMAIN state : WrongLen(f)
        THEN LET f == First({g \in DOMAIN state : WrongLen(g)})
             IN  [valid |-> FALSE, reason |-> <<"stickers", f, Len(state[f])>>]
        ELSE IF Len(counter.keys) # 12
        THEN [valid |-> FALSE, reason |-> <<"colors", Len(counter.keys)>>]
        ELSE IF \E i \in DOMAIN counter.keys : WrongCount(i)
        THEN LET i == First({j \in DOMAIN counter.keys : WrongCount(j)})
             IN  [valid |-> FALSE,
                  reason |-> <<"count", counter.keys[i], counter.count[counter.keys[i]]>>]
        ELSE IF bad # {}
        THEN [valid |-> FALSE,
              reason |-> <<"centers", First(bad)>>]
        ELSE [valid |-> TRUE, reason |-> <<"valid">>]

----------------------------------------------------------------------------
(* Inputs.                                                                 *)

Modifiers == {<<>>, <<"'">>, <<"2">>}

\* the 36 tokens of the notation and some tokens outside it
ValidTokens == {Face[v] \o md : v \in DOMAIN Face, md \in Modifiers}

InvalidTokens == {<<"X">>, <<"F", "3">>, <<"Q", "'">>, <<>>}

Tokens == ValidTokens \cup InvalidTokens

\* the token without its trailing modifier character
FaceCode(t) ==
    IF Len(t) > 0 /\ <<t[Len(t)]>> \in Modifiers THEN SubSeq(t, 1, Len(t) - 1) ELSE t

Swap(s, a, p, b, q) ==
    [s EXCEPT ![a][p] = s[b][q], ![b][q] = s[a][p]]

\* F and B each trade a corner sticker, BR and U an edge sticker
Scrambled == Swap(Swap(SolvedState, 0, 1, 9, 4), 5, 2, 1, 15)

\* dicts a caller may pass to MasterKilominx(state)
InputStates ==
    { SolvedState,
      Scrambled,
      Swap(SolvedState, 0, 3, 9, 8),
      Swap(SolvedState, 0, 6, 1, 6),                         \* centres of F and U differ
      [SolvedState EXCEPT ![0][1] = 1],                      \* colour 1 seventeen times
      [SolvedState EXCEPT ![0][1] = 12],                     \* a thirteenth colour
      [SolvedState EXCEPT ![11] = Repeat(10, 16)],           \* eleven colours
      [f \in FaceValues \ {11} |-> SolvedState[f]],          \* eleven faces
      [f \in FaceValues \cup {12} |-> Repeat(f, 16)],        \* thirteen faces
      [SolvedState EXCEPT ![5] = Repeat(5, 15)],             \* a face of 15 stickers
      [Scrambled EXCEPT ![0] = Append(@, 0)],                \* a face of 17 stickers
      [SolvedState EXCEPT ![0] = Append(@, 1), ![1] = Repeat(1, 15)],
      [f \in FaceValues \ {11} |->                           \* eleven faces, one of 15
          IF f = 5 THEN Repeat(5, 15) ELSE SolvedState[f]] }

----------------------------------------------------------------------------
(* The state machine.                                                      *)

\* m = MasterKilominx()
InitSolved ==
    LET a == AllocState(EmptyHeap, SolvedState)
    IN  /\ heap = a.H
        /\ d = 0
        /\ m = a.ref
        /\ start = SolvedState

\* m = MasterKilominx(d)
InitGiven ==
    \E s \in InputStates :
        LET a == AllocState(EmptyHeap, s)
            b == NewKilominx(a.H, a.ref)
        IN  /\ heap = b.H
            /\ d = a.ref
            /\ m = b.ref
            /\ start = s

\* no MasterKilominx instance has been made
NoKilominx ==
    /\ heap = EmptyHeap
    /\ d = 0
    /\ m = 0
    /\ m1 = 0
    /\ pre = <<>>
    /\ start = <<>>
    /\ moves = <<>>
    /\ raised = "none"

\* MasterKilominxColorPicker.COLORS, as (r, g, b)
COLORS ==
    << <<255, 255, 255>>, <<255, 255, 0>>, <<0, 0, 255>>, <<255, 0, 0>>,
       <<0, 200, 0>>, <<150, 0, 150>>, <<255, 165, 0>>, <<255, 105, 180>>,
       <<0, 191, 255>>, <<144, 238, 144>>, <<0, 100, 0>>, <<128, 128, 128>> >>

\* the colour a PentagonalSticker is made with
DefaultGray == <<200, 200, 200>>

\* _setup_pentagonal_layout: 5 groups of 4 stickers
groups == 5

stickers_per_group == 4

\* the application right after MainWindow(): the picker with all stickers
\* gray, white selected, face 0 shown; no cube state, no solution
WindowConstructed ==
    /\ face_widgets = [face \in FaceValues |-> Repeat(DefaultGray, groups * stickers_per_group)]
    /\ current_color = <<255, 255, 255>>
    /\ current_face = 0
    /\ cube_state = <<>>
    /\ solution = [has |-> FALSE, steps |-> <<>>]
    /\ display = [shown |-> FALSE, initial_state |-> <<>>, solution_steps |-> <<>>,
                  current_states |-> <<>>, current_step |-> -1,
                  steps_row |-> -1, prev_button |-> FALSE, next_button |-> FALSE]
    /\ enabled = FALSE
    /\ message = "none"
    /\ solver_calls = <<>>
    /\ image_input = [image_path |-> "", process_button |-> FALSE,
                      processor_thread |-> 0, threads |-> <<>>, signals |-> <<>>,
                      delivered |-> <<>>]

\* utils/config.py.  A value written in the source or read from a JSON
\* file is a tree: a plain value or a dict of trees.
Val(x) == [kind |-> "val", at |-> x]

Dict(items) == [kind |-> "dict", items |-> items]

\* a value held in a dict object: the reference of a nested dict
Ref(r) == [kind |-> "ref", at |-> r]

DEFAULT_CONFIG ==
    Dict([ui |-> Dict([theme |-> Val("light"), window_width |-> Val(900),
                       window_height |-> Val(700), font_size |-> Val(12)]),
          colors |-> Dict([standard_colors |->
                              Dict([White |-> Val(<<255, 255, 255>>),
                                    Yellow |-> Val(<<255, 255, 0>>),
                                    Red |-> Val(<<255, 0, 0>>),
                                    Orange |-> Val(<<255, 165, 0>>),
                                    Green |-> Val(<<0, 128, 0>>),
                                    Blue |-> Val(<<0, 0, 255>>),
                                    Purple |-> Val(<<128, 0, 128>>),
                                    Pink |-> Val(<<255, 192, 203>>),
                                    LightBlue |-> Val(<<173, 216, 230>>),
                                    LightGreen |-> Val(<<144, 238, 144>>),
                                    Brown |-> Val(<<165, 42, 42>>),
                                    Gray |-> Val(<<128, 128, 128>>)]),
                           color_tolerance |-> Val(30)]),
          solver |-> Dict([timeout_seconds |-> Val(60), max_moves |-> Val(200),
                           simplify_solution |-> Val(TRUE)]),
          image_processing |-> Dict([detect_method |-> Val("contours"),
                                     min_face_size |-> Val(50),
                                     adaptive_threshold |-> Val(TRUE),
                                     blur_kernel_size |-> Val(5)])])

\* target[key] = value on the dict object at reference target
SetItem(H, target, key, value) ==
    LET old == H.dicts[target]
    IN  [H EXCEPT !.dicts[target] =
            [k \in DOMAIN old \cup {key} |-> IF k = key THEN value ELSE old[k]]]

\* a new dict object without keys
NewDict(H) ==
    [H |-> [H EXCEPT !.top = H.top + 1,
                     !.dicts = (H.top + 1 :> [k \in {} |-> 0]) @@ H.dicts],
     ref |-> H.top + 1]

RECURSIVE StoreItems(_, _, _, _)
\* the items of a dict of trees are put into the dict object at r, the
\* nested dicts being made on the way
StoreItems(H, r, items, keys) ==
    IF keys = {} THEN H
    ELSE LET key == CHOOSE k \in keys : TRUE
             tree == items[key]
             after ==
                IF tree.kind = "val" THEN SetItem(H, r, key, tree)
                ELSE LET n == NewDict(H)
                         filled == StoreItems(n.H, n.ref, tree.items,
                                              DOMAIN tree.items)
                     IN  SetItem(filled, r, key, Ref(n.ref))
         IN  StoreItems(after, r, items, keys \ {key})

\* the objects of a tree are made: what a dict display or json.load builds
Store(H, tree) ==
    IF tree.kind = "val" THEN [H |-> H, value |-> tree]
    ELSE LET n == NewDict(H)
         IN  [H |-> StoreItems(n.H, n.ref, tree.items, DOMAIN tree.items),
              value |-> Ref(n.ref)]

RECURSIVE Deep(_, _)
\* the tree a value of the heap stands for
Deep(H, value) ==
    IF value.kind = "val" THEN value
    ELSE Dict([k \in DOMAIN H.dicts[value.at] |-> Deep(H, H.dicts[value.at][k])])

\* dict.copy(): a new dict object holding the same values
CopyDict(H, r) ==
    LET n == NewDict(H)
    IN  [H |-> [n.H EXCEPT !.dicts[n.ref] = H.dicts[r]], ref |-> n.ref]

\* Config(): self.config = DEFAULT_CONFIG.copy(), no file given
NewConfig(H) ==
    LET c == CopyDict(H, H.default)
    IN  [c.H EXCEPT !.instances = Append(@, c.ref)]

RECURSIVE update_dict(_, _, _, _)
\* Config._update_dict for the keys of source still to be gone through
update_dict(H, target, source, keys) ==
    IF keys = {} THEN H
    ELSE LET key == CHOOSE k \in keys : TRUE
             value == source.items[key]
             here == H.dicts[target]
             after ==
                IF /\ key \in DOMAIN here
                   /\ here[key].kind = "ref"
                   /\ value.kind = "dict"
                THEN update_dict(H, here[key].at, value, DOMAIN value.items)
                ELSE LET stored == Store(H, value)
                     IN  SetItem(stored.H, target, key, stored.value)
         IN  update_dict(after, target, source, keys \ {key})

\* Config.load_config, loaded being what json.load returns; an exception
\* (source.items() of what is no dict) is caught and printed
load_config(H, self, loaded) ==
    IF loaded.kind # "dict" THEN H
    ELSE update_dict(H, self, loaded, DOMAIN loaded.items)

\* Config.set; an item assignment on what is no dict raises TypeError
set(H, self, section, key, value) ==
    LET made == IF section \notin DOMAIN H.dicts[self]
                THEN LET n == NewDict(H)
                     IN  SetItem(n.H, self, section, Ref(n.ref))
                ELSE H
        held == made.dicts[self][section]
    IN  IF held.kind = "ref" THEN SetItem(made, held.at, key, Val(value))
        ELSE made

\* Config.get with a key; None stands for the default `default`
get(H, self, section, key) ==
    IF section \notin DOMAIN H.dicts[self] THEN Val("None")
    ELSE LET held == H.dicts[self][section]
         IN  IF held.kind # "ref" THEN Val("AttributeError")
             ELSE IF key \in DOMAIN H.dicts[held.at] THEN H.dicts[held.at][key]
             ELSE Val("None")

\* the module has been imported: DEFAULT_CONFIG exists and config = Config()
ConfigImported ==
    LET stored == Store([dicts |-> <<>>, top |-> 0, default |-> 0, instances |-> <<>>],
                        DEFAULT_CONFIG)
    IN  config_heap = NewConfig([stored.H EXCEPT !.default = stored.value.at])

\* no MoveNotation call is under way
NotationIdle ==
    /\ algorithm = [kind |-> "str", value |-> <<>>]
    /\ npc = "idle"
    /\ parts = <<>>
    /\ smoves = <<>>
    /\ si = 0
    /\ combined = <<>>

Init ==
    /\ InitSolved \/ InitGiven
    /\ m1 = 0
    /\ pre = start
    /\ moves = <<>>
    /\ raised = "none"
    /\ NotationIdle
    /\ WindowConstructed
    /\ ConfigImported

\* m = m.apply_move(tok); on an exception m stays the receiver
ApplyMove(tok) ==
    /\ \/ Len(moves) < MaxMoves
       \/ /\ Len(moves) < MaxTurns
          /\ \A i \in DOMAIN moves : FaceCode(moves[i]) = FaceCode(tok)
       \/ /\ Len(moves) < MaxRun
          /\ \A i \in DOMAIN moves : moves[i] = tok
    /\ LET r == apply_move(heap, m, tok)
           res == IF r.raised = "none" THEN r.ref ELSE m
       IN  /\ heap' = Collect(r.H, {d, m, res})
           /\ m1' = m
           /\ m' = res
           /\ raised' = r.raised
    /\ pre' = Deref(heap, m)
    /\ moves' = Append(moves, tok)
    /\ UNCHANGED <<d, start>>
    /\ UNCHANGED <<notationVars, windowVars, configVars>>

Next == \E tok \in Tokens : ApplyMove(tok)

Spec == Init /\ [][Next]_vars

State == Deref(heap, m)

----------------------------------------------------------------------------
(* MasterKilominx.set_sticker, and a caller that turns the puzzle and sets *)
(* stickers on the instance it holds.                                      *)

\* self.state[face_idx][sticker_idx] = color, in the list the dict refers to
set_sticker(H, self, face_idx, row, col, color) ==
    IF face_idx \in DOMAIN H.dicts[self] /\ 0 <= row /\ row < 4 /\ 0 <= col /\ col < 4
    THEN LET sticker_idx == row * 4 + col
             list == H.dicts[self][face_idx]
         IN  IF sticker_idx < Len(H.lists[list])
             THEN [H EXCEPT !.lists[list][sticker_idx + 1] = color]
             ELSE H
    ELSE H

\* the arguments face_idx, row, col and color of the set_sticker calls
StickerArgs == {<<0, 0, 0, 7>>, <<5, 3, 3, 7>>, <<0, 4, 0, 7>>, <<12, 0, 0, 7>>}

\* the moves of the caller
StickerTokens == {<<"F">>, <<"B", "R", "'">>}

\* m.set_sticker(face_idx, row, col, color)
SetSticker(face_idx, row, col, color) ==
    /\ heap' = set_sticker(heap, m, face_idx, row, col, color)
    /\ UNCHANGED <<d, m, m1, pre, start, moves, raised>>
    /\ UNCHANGED <<notationVars, windowVars, configVars>>

NextSticker ==
    \/ \E tok \in StickerTokens : ApplyMove(tok)
    \/ \E a \in StickerArgs : SetSticker(a[1], a[2], a[3], a[4])

StickerSpec == Init /\ [][NextSticker]_vars

----------------------------------------------------------------------------
(* MoveNotation (solver/move_notation.py).  A str is the sequence of its   *)
(* characters; the argument of a call is tagged with its Python type.      *)

\* str.isspace for one character
isspace(char) == char \in {" ", "\n", "\t"}

RECURSIVE lstrip(_)
lstrip(s) == IF s # <<>> /\ isspace(s[1]) THEN lstrip(Tail(s)) ELSE s

RECURSIVE rstrip(_)
rstrip(s) ==
    IF s # <<>> /\ isspace(s[Len(s)]) THEN rstrip(SubSeq(s, 1, Len(s) - 1)) ELSE s

\* str.strip
strip(s) == rstrip(lstrip(s))

\* the parts appended when current_part is not empty
Flush(parts_, current_part) ==
    IF current_part # <<>> THEN Append(parts_, current_part) ELSE parts_

RECURSIVE ParseFrom(_, _, _, _, _)
\* the loop over the characters of parse_algorithm from character k on, and
\* the append after it
ParseFrom(alg, k, parts_, current_part, in_comment) ==
    IF k > Len(alg) THEN Flush(parts_, current_part)
    ELSE LET char == alg[k]
         IN  IF char = "#"
             THEN ParseFrom(alg, k + 1, Flush(parts_, current_part), <<"#">>, TRUE)
             ELSE IF in_comment
             THEN IF char = "\n"
                  THEN ParseFrom(alg, k + 1, Append(parts_, current_part), <<>>, FALSE)
                  ELSE ParseFrom(alg, k + 1, parts_, Append(current_part, char), TRUE)
             ELSE IF isspace(char)
             THEN ParseFrom(alg, k + 1, Flush(parts_, current_part), <<>>, FALSE)
             ELSE ParseFrom(alg, k + 1, parts_, Append(current_part, char), FALSE)

parse_algorithm(alg) ==
    IF alg = <<>> THEN <<>>
    ELSE LET found == ParseFrom(alg, 1, <<>>, <<>>, FALSE)
             kept(part) == strip(part) # <<>>
         IN  SelectSeq([i \in DOMAIN found |-> strip(found[i])], kept)

startswith_hash(move) == move # <<>> /\ move[1] = "#"

\* the face name simplify_algorithm and _combine_moves read off a token
face_of(move) ==
    IF Len(move) > 1 /\ move[2] \notin {"'", "2"} THEN SubSeq(move, 1, 2)
    ELSE SubSeq(move, 1, 1)

\* move[len(face):], the modifier
mod_of(move) == SubSeq(move, Len(face_of(move)) + 1, Len(move))

\* rot1, rot2 of _combine_moves
rot_of(mod) == IF mod = <<"'">> THEN 3 ELSE IF mod = <<"2">> THEN 2 ELSE 1

\* _combine_moves; none stands for the return value None
combine_moves(move1, move2) ==
    LET face1 == face_of(move1)
        combined_rot == (rot_of(mod_of(move1)) + rot_of(mod_of(move2))) % 4
    IN  IF combined_rot = 0 THEN [none |-> TRUE, move |-> <<>>]
        ELSE IF combined_rot = 1 THEN [none |-> FALSE, move |-> face1]
        ELSE IF combined_rot = 2 THEN [none |-> FALSE, move |-> face1 \o <<"2">>]
        ELSE [none |-> FALSE, move |-> face1 \o <<"'">>]

\* `if combined:` of simplify_algorithm
truthy(c) == ~c.none /\ c.move # <<>>

\* moves[i] = c without the pop
MergeNoPop(ms, i, c) == [ms EXCEPT ![i + 1] = c]

\* moves.pop(i + 1) after moves[i] = c, i counted from 0
Merge(ms, i, c) ==
    [n \in 1..(Len(ms) - 1) |->
        IF n = i + 1 THEN c ELSE IF n <= i THEN ms[n] ELSE ms[n + 1]]

RECURSIVE SimplifyLoop(_, _)
\* the while loop of simplify_algorithm from index i on, run to its end
SimplifyLoop(ms, i) ==
    IF ~(i < Len(ms) - 1) THEN ms
    ELSE LET current == ms[i + 1]
             next_move == ms[i + 2]
             c == combine_moves(current, next_move)
         IN  IF startswith_hash(current) \/ startswith_hash(next_move)
             THEN SimplifyLoop(ms, i + 1)
             ELSE IF /\ Len(current) > 0
                     /\ Len(next_move) > 0
                     /\ face_of(current) = face_of(next_move)
                     /\ truthy(c)
             THEN SimplifyLoop(Merge(ms, i, c.move), i)
             ELSE SimplifyLoop(ms, i + 1)

\* MoveNotation.simplify_algorithm as one call
simplify_algorithm(alg) ==
    SimplifyLoop(IF alg.kind = "str" THEN parse_algorithm(alg.value) ELSE alg.value, 0)

\* MoveNotation.FACE_NAMES, a dict in the order it is written
FACE_NAMES ==
    << << <<"F">>, "Front" >>, << <<"U">>, "Up" >>, << <<"R">>, "Right" >>,
       << <<"D">>, "Down" >>, << <<"L">>, "Left" >>,
       << <<"B", "R">>, "Back-Right" >>, << <<"B", "L">>, "Back-Left" >>,
       << <<"B", "U">>, "Back-Up" >>, << <<"B", "D">>, "Back-Down" >>,
       << <<"B">>, "Back" >>, << <<"U", "L">>, "Up-Left" >>,
       << <<"U", "R">>, "Up-Right" >> >>

\* MoveNotation.MODIFIERS; the text for "2" ends in the two characters the
\* source file holds after 180, written here as "deg"
MODIFIERS ==
    << << <<>>, "clockwise" >>, << <<"'">>, "counter-clockwise" >>,
       << <<"2">>, "half-turn (180 deg)" >> >>

\* key in dict
HasKey(dict, key) == \E k \in DOMAIN dict : dict[k][1] = key

\* dict.get(key, default)
Get(dict, key, default) ==
    IF HasKey(dict, key) THEN dict[CHOOSE k \in DOMAIN dict : dict[k][1] = key][2]
    ELSE default

\* to_human_readable without the check for a two-character face name
to_human_readable_one_char(move) ==
    IF move = <<>> THEN <<"No move">>
    ELSE IF startswith_hash(move) THEN strip(Tail(move))
    ELSE LET face == <<move[1]>>
             modifier == IF Len(move) > 1 /\ HasKey(FACE_NAMES, face)
                         THEN Tail(move) ELSE <<>>
             face_name == Get(FACE_NAMES, face, <<"Unknown face '", face, "'">>)
             direction == Get(MODIFIERS, modifier, "unknown direction")
         IN  <<"Turn the ", face_name, " face ", direction>>

\* MoveNotation.to_human_readable; the f-string it returns is kept as the
\* sequence of its pieces
to_human_readable(move) ==
    IF move = <<>> THEN <<"No move">>
    ELSE IF startswith_hash(move) THEN strip(Tail(move))
    ELSE LET first == <<move[1]>>
             known == Len(move) > 1 /\ HasKey(FACE_NAMES, first)
             two == known /\ HasKey(FACE_NAMES, first \o <<move[2]>>)
             face == IF two THEN first \o <<move[2]>> ELSE first
             modifier == IF two THEN SubSeq(move, 3, Len(move))
                         ELSE IF known THEN Tail(move)
                         ELSE <<>>
             face_name == Get(FACE_NAMES, face, <<"Unknown face '", face, "'">>)
             direction == Get(MODIFIERS, modifier, "unknown direction")
         IN  <<"Turn the ", face_name, " face ", direction>>

\* MoveNotation.algorithm_to_human_readable
algorithm_to_human_readable(alg) ==
    LET moves_ == IF alg.kind = "str" THEN parse_algorithm(alg.value) ELSE alg.value
    IN  [i \in DOMAIN moves_ |-> to_human_readable(moves_[i])]

\* the characters algorithm strings are made of
Chars == {"F", "'", " ", "#", "\n"}

RECURSIVE Strings(_, _)
\* the sequences over S of at most n elements
Strings(S, n) ==
    IF n = 0 THEN {<<>>}
    ELSE LET shorter == Strings(S, n - 1)
         IN  shorter \cup {Append(s, x) : s \in shorter, x \in S}

\* the tokens lists given to simplify_algorithm are made of
ListTokens ==
    {<<"F">>, <<"F", "'">>, <<"F", "2">>,
     <<"B", "R">>, <<"B", "R", "'">>, <<"B", "R", "2">>, <<"U">>, <<"#", "c">>}

Algorithms ==
    {[kind |-> "str", value |-> s] : s \in Strings(Chars, MaxChars)}
    \cup {[kind |-> "list", value |-> l] : l \in Strings(ListTokens, MaxTokens)}
    \cup {[kind |-> "list", value |-> <<t>>] : t \in ValidTokens}

\* a caller holds an algorithm and has made no call yet
InitNotation ==
    /\ NoKilominx
    /\ WindowConstructed
    /\ ConfigImported
    /\ algorithm \in Algorithms
    /\ npc = "idle"
    /\ parts = <<>>
    /\ smoves = <<>>
    /\ si = 0
    /\ combined = <<>>

\* MoveNotation.parse_algorithm(algorithm)
ParseAlgorithm ==
    /\ npc = "idle"
    /\ algorithm.kind = "str"
    /\ parts' = parse_algorithm(algorithm.value)
    /\ npc' = "parsed"
    /\ UNCHANGED <<algorithm, smoves, si, combined>>
    /\ UNCHANGED <<kilominxVars, windowVars, configVars>>

\* MoveNotation.algorithm_to_human_readable(algorithm)
AlgorithmToHumanReadable ==
    /\ npc = "idle"
    /\ parts' = algorithm_to_human_readable(algorithm)
    /\ npc' = "described"
    /\ UNCHANGED <<algorithm, smoves, si, combined>>
    /\ UNCHANGED <<kilominxVars, windowVars, configVars>>

\* simplify_algorithm(algorithm) up to the while loop
SimplifyBegin ==
    /\ npc = "idle"
    /\ smoves' = IF algorithm.kind = "str" THEN parse_algorithm(algorithm.value)
                 ELSE algorithm.value
    /\ si' = 0
    /\ npc' = "loop"
    /\ UNCHANGED <<algorithm, parts, combined>>
    /\ UNCHANGED <<kilominxVars, windowVars, configVars>>

\* one pass through the body of the while loop
SimplifyStep ==
    /\ npc = "loop"
    /\ si < Len(smoves) - 1
    /\ LET current == smoves[si + 1]
           next_move == smoves[si + 2]
           c == combine_moves(current, next_move)
       IN  IF startswith_hash(current) \/ startswith_hash(next_move)
           THEN /\ si' = si + 1
                /\ UNCHANGED <<smoves, combined>>
           ELSE IF /\ Len(current) > 0
                   /\ Len(next_move) > 0
                   /\ face_of(current) = face_of(next_move)
           THEN /\ combined' = <<current, next_move, c>>
                /\ IF truthy(c)
                   THEN /\ smoves' = Merge(smoves, si, c.move)
                        /\ si' = si
                   ELSE /\ si' = si + 1
                        /\ smoves' = smoves
           ELSE /\ si' = si + 1
                /\ UNCHANGED <<smoves, combined>>
    /\ UNCHANGED <<algorithm, npc, parts>>
    /\ UNCHANGED <<kilominxVars, windowVars, configVars>>

\* the loop condition fails: return moves
SimplifyReturn ==
    /\ npc = "loop"
    /\ ~(si < Len(smoves) - 1)
    /\ npc' = "returned"
    /\ UNCHANGED <<algorithm, parts, smoves, si, combined>>
    /\ UNCHANGED <<kilominxVars, windowVars, configVars>>

NextNotation ==
    \/ ParseAlgorithm
    \/ AlgorithmToHumanReadable
    \/ SimplifyBegin
    \/ SimplifyStep
    \/ SimplifyReturn

NotationSpec == InitNotation /\ [][NextNotation]_vars

----------------------------------------------------------------------------
(* Notions the claims are stated in.                                       *)

Last == moves[Len(moves)]

\* how often colour c occurs on face f of state s
CountOn(s, f, c) == Cardinality({i \in DOMAIN s[f] : s[f][i] = c})

RECURSIVE CountFrom(_, _, _)
\* how often colour c occurs on the faces of s from key k on
CountFrom(s, k, c) ==
    IF k > MaxKey THEN 0
    ELSE (IF k \in DOMAIN s THEN CountOn(s, k, c) ELSE 0) + CountFrom(s, k + 1, c)

\* how often colour c occurs in the whole of state s
Count(s, c) == CountFrom(s, 0, c)

ColoursOf(s) == UNION {Range(s[f]) : f \in DOMAIN s}

\* 12 faces of 16 stickers, each of the 12 identifiers 16 times
Balanced(s) ==
    /\ DOMAIN s = FaceValues
    /\ \A f \in DOMAIN s : Len(s[f]) = stickers_per_face
    /\ \A c \in FaceValues : Count(s, c) = stickers_per_face

\* what the validator is said to accept
Accepted(s) ==
    /\ Cardinality(DOMAIN s) = 12
    /\ \A f \in DOMAIN s : Len(s[f]) = 16
    /\ Cardinality(ColoursOf(s)) = 12
    /\ \A c \in ColoursOf(s) : Count(s, c) = 16
    /\ \A f \in DOMAIN s : /\ s[f][6] = s[f][7]
                           /\ s[f][7] = s[f][10]
                           /\ s[f][10] = s[f][11]

\* the turn amount a modifier stands for in the notation
TurnOf(md) == IF md = <<>> THEN 1 ELSE IF md = <<"'">> THEN -1 ELSE 2

\* the contents of s.apply_move(tok) for a state s the call does not fail on
After(s, tok) ==
    LET a == AllocState(EmptyHeap, s)
        r == apply_move(a.H, a.ref, tok)
    IN  Deref(r.H, r.ref)

----------------------------------------------------------------------------
(* The solver.  solver/solver_algorithm.py does not hold solve_kilominx;   *)
(* it is modelled from section 4.5 of the specification: a bounded,        *)
(* deterministic search for a move sequence that reaches the solved state, *)
(* which fails with NoSolutionFound when the search is exhausted.          *)

\* all stickers of every face hold one colour identifier
Uniform(s) == \A f \in DOMAIN s : \A i \in DOMAIN s[f] : s[f][i] = s[f][1]

RECURSIVE Replay(_, _)
\* the contents after the moves of seq, applied one after the other to s
Replay(s, seq) == IF seq = <<>> THEN s ELSE Replay(After(s, Head(seq)), Tail(seq))

\* the move sequences of n tokens of the notation
Sequences(n) == [1..n -> ValidTokens]

RECURSIVE SearchFrom(_, _, _)
\* breadth-first search: frontier holds the states n moves lead to from
\* state; the result is a shortest sequence that solves state, or
\* NoSolutionFound when MaxSolution moves do not do
SearchFrom(state, frontier, n) ==
    IF \E s \in frontier : Uniform(s)
    THEN [raised |-> "none",
          steps |-> CHOOSE seq \in Sequences(n) : Uniform(Replay(state, seq))]
    ELSE IF n >= MaxSolution
    THEN [raised |-> "NoSolutionFound", steps |-> <<>>]
    ELSE SearchFrom(state, {After(s, tok) : s \in frontier, tok \in ValidTokens}, n + 1)

solve_kilominx(state) == SearchFrom(state, {state}, 0)

----------------------------------------------------------------------------
(* MasterKilominxColorPicker, MainWindow and SolutionDisplayWidget.  The   *)
(* key n of a cube state stands for the str key "face_n" of the program;   *)
(* an RGB colour is a tuple, as the validator makes it.                    *)

\* PentagonalFaceWidget.set_sticker_color on the stickers of one widget
set_sticker_color(stickers, group_id, sticker_id, color) ==
    LET sticker_idx == group_id * 4 + sticker_id
    IN  IF 0 <= sticker_idx /\ sticker_idx < Len(stickers)
        THEN [stickers EXCEPT ![sticker_idx + 1] = color]
        ELSE stickers

\* the cube_state _on_solve_clicked collects: get_color_state of each widget
get_cube_state(widgets) == [face_idx \in DOMAIN widgets |-> widgets[face_idx]]

\* SolutionDisplayWidget._apply_move_to_state: a copy of the state it is given
apply_move_to_state(current_state, move) == current_state

RECURSIVE StatesFrom(_, _)
\* the loop of display_solution over the steps left, current_state being the
\* last state appended
StatesFrom(current_states, steps) ==
    IF steps = <<>> THEN current_states
    ELSE StatesFrom(Append(current_states,
                           apply_move_to_state(current_states[Len(current_states)],
                                               Head(steps))),
                    Tail(steps))

\* SolutionDisplayWidget.display_solution.  steps_list.clear() leaves the
\* list without a current row; the currentRowChanged(-1) it may send is
\* dropped by _on_step_selected.
display_solution(initial_state, solution_steps) ==
    [shown |-> TRUE,
     initial_state |-> initial_state,
     solution_steps |-> solution_steps,
     current_states |-> StatesFrom(<<initial_state>>, solution_steps),
     current_step |-> 0,
     steps_row |-> -1,
     next_button |-> Len(solution_steps) > 0,
     prev_button |-> FALSE]

\* _on_step_selected that leaves the buttons as they are
on_step_selected_no_buttons(disp, row) ==
    IF row >= 0 /\ row <= Len(disp.solution_steps)
    THEN [disp EXCEPT !.current_step = row]
    ELSE disp

\* SolutionDisplayWidget._on_step_selected
on_step_selected(disp, row) ==
    IF row >= 0 /\ row <= Len(disp.solution_steps)
    THEN [disp EXCEPT !.current_step = row,
                      !.prev_button = row > 0,
                      !.next_button = row < Len(disp.solution_steps)]
    ELSE disp

\* steps_list.setCurrentRow(row), also what a click on a row does:
\* currentRowChanged is sent, and _on_step_selected run, when the row changes
set_current_row(disp, row) ==
    IF row = disp.steps_row THEN disp
    ELSE on_step_selected([disp EXCEPT !.steps_row = row], row)

\* SolutionDisplayWidget._prev_step
prev_step(disp) ==
    IF disp.current_step > 0
    THEN set_current_row([disp EXCEPT !.current_step = disp.current_step - 1],
                         disp.current_step - 1)
    ELSE disp

\* SolutionDisplayWidget._next_step
next_step(disp) ==
    IF disp.current_step < Len(disp.solution_steps)
    THEN set_current_row([disp EXCEPT !.current_step = disp.current_step + 1],
                         disp.current_step + 1)
    ELSE disp

\* _validate_and_solve that hands every state that is not empty to the solver
validate_and_solve_unchecked(state, sol, disp, en) ==
    IF DOMAIN state = {}
    THEN [message |-> "Invalid State", calls |-> <<>>,
          solution |-> sol, display |-> disp, enabled |-> en]
    ELSE LET r == solve_kilominx(state)
             call == [arg |-> state, raised |-> r.raised, steps |-> r.steps]
         IN  IF r.raised # "none"
             THEN [message |-> "Solver Error", calls |-> <<call>>,
                   solution |-> sol, display |-> disp, enabled |-> en]
             ELSE [message |-> "none", calls |-> <<call>>,
                   solution |-> [has |-> TRUE, steps |-> r.steps],
                   display |-> display_solution(state, r.steps),
                   enabled |-> TRUE]

\* MainWindow._validate_and_solve on self.cube_state = state: the message
\* box shown, the calls of solve_kilominx made, and the fields afterwards
validate_and_solve(state, sol, disp, en) ==
    IF DOMAIN state = {}
    THEN [message |-> "Invalid State", calls |-> <<>>,
          solution |-> sol, display |-> disp, enabled |-> en]
    ELSE IF ~validate_kilominx_state(state).valid
    THEN [message |-> "Invalid Configuration", calls |-> <<>>,
          solution |-> sol, display |-> disp, enabled |-> en]
    ELSE LET r == solve_kilominx(state)
             call == [arg |-> state, raised |-> r.raised, steps |-> r.steps]
         IN  IF r.raised # "none"
             THEN [message |-> "Solver Error", calls |-> <<call>>,
                   solution |-> sol, display |-> disp, enabled |-> en]
             ELSE [message |-> "none", calls |-> <<call>>,
                   solution |-> [has |-> TRUE, steps |-> r.steps],
                   display |-> display_solution(state, r.steps),
                   enabled |-> TRUE]

\* the colours and faces a user picks, the stickers a user clicks
PickColors == {COLORS[4]}

PickFaces == {0, 1}

PickStickers == {<<4, 3>>}

\* 12 faces of 16 colours in the palette's colours, face n in colour n
RGBSolved == [face \in FaceValues |-> Repeat(COLORS[face + 1], 16)]

\* states extract_colors_from_image returns: 12 faces, each a 4x4 grid
ImageStates ==
    { RGBSolved,
      Swap(Swap(RGBSolved, 0, 1, 9, 4), 5, 2, 1, 15),
      [RGBSolved EXCEPT ![0][1] = COLORS[2]],
      [RGBSolved EXCEPT ![11] = Repeat(COLORS[11], 16)] }

InitWindow ==
    /\ NoKilominx
    /\ NotationIdle
    /\ WindowConstructed
    /\ ConfigImported

\* _select_color
SelectColor(color) ==
    /\ current_color' = color
    /\ UNCHANGED <<face_widgets, current_face, cube_state, solution, display,
                   enabled, message, solver_calls, image_input>>
    /\ UNCHANGED <<kilominxVars, notationVars, configVars>>

\* _change_face
ChangeFace(index) ==
    /\ current_face' = index
    /\ UNCHANGED <<face_widgets, current_color, cube_state, solution, display,
                   enabled, message, solver_calls, image_input>>
    /\ UNCHANGED <<kilominxVars, notationVars, configVars>>

\* _on_sticker_clicked, from a sticker of the widget of face_id
StickerClicked(face_id, group_id, sticker_id) ==
    /\ \/ face_widgets[face_id][group_id * 4 + sticker_id + 1] # DefaultGray
       \/ Cardinality({<<f, i>> \in FaceValues \X (1..(groups * stickers_per_group)) :
                          face_widgets[f][i] # DefaultGray}) < MaxClicks
    /\ face_widgets' =
          IF face_id = current_face
          THEN [face_widgets EXCEPT ![face_id] =
                   set_sticker_color(@, group_id, sticker_id, current_color)]
          ELSE face_widgets
    /\ UNCHANGED <<current_color, current_face, cube_state, solution, display,
                   enabled, message, solver_calls, image_input>>
    /\ UNCHANGED <<kilominxVars, notationVars, configVars>>

\* self.cube_state = state and _validate_and_solve()
SetStateAndSolve(state) ==
    \E done \in {validate_and_solve(state, solution, display, enabled)} :
        /\ cube_state' = state
        /\ solution' = done.solution
        /\ display' = done.display
        /\ enabled' = done.enabled
        /\ message' = done.message
        /\ solver_calls' = done.calls
        /\ UNCHANGED <<face_widgets, current_color, current_face>>
        /\ UNCHANGED <<kilominxVars, notationVars, configVars>>

\* what both callbacks do with the state they are given
StateReady(state) ==
    /\ SetStateAndSolve(state)
    /\ UNCHANGED image_input

\* _on_solve_clicked, and with it _on_manual_state_ready
SolveClicked == StateReady(get_cube_state(face_widgets))

\* _on_processing_complete, and with it _on_image_processed
ImageProcessed(state) == StateReady(state)

NextWindow ==
    \/ \E color \in PickColors : SelectColor(color)
    \/ \E index \in PickFaces : ChangeFace(index)
    \/ \E st \in PickStickers : StickerClicked(current_face, st[1], st[2])
    \/ SolveClicked
    \/ \E state \in ImageStates : ImageProcessed(state)

WindowSpec == InitWindow /\ [][NextWindow]_vars

----------------------------------------------------------------------------
(* ImageInputWidget and its ImageProcessorThread objects.  A thread is its  *)
(* number in the order of creation.  run() ends by sending one signal,     *)
(* which waits in the event queue of the GUI thread until its slot runs.   *)

\* the paths a file dialog can return; os.path.exists holds for the first
FilePaths == {"cube.png", "gone.png"}

exists(file_path) == file_path = "cube.png"

\* what extract_colors_from_image returns for the image
ExtractedStates == {RGBSolved, [RGBSolved EXCEPT ![0][1] = COLORS[2]]}

\* the threads whose run() has not ended
Running(ii) == {t \in DOMAIN ii.threads : ii.threads[t] = "running"}

InitImage ==
    /\ NoKilominx
    /\ NotationIdle
    /\ WindowConstructed
    /\ ConfigImported

\* ImageInputWidget.load_image
LoadImage(file_path) ==
    /\ image_input' =
          IF ~exists(file_path) THEN image_input
          ELSE [image_input EXCEPT !.image_path = file_path,
                                   !.process_button = TRUE]
    /\ message' = IF ~exists(file_path) THEN "File Not Found" ELSE message
    /\ UNCHANGED <<face_widgets, current_color, current_face, cube_state, solution,
                   display, enabled, solver_calls>>
    /\ UNCHANGED <<kilominxVars, notationVars, configVars>>

\* _upload_image: the "Upload Image" button and its file dialog
UploadImage(file_path) == LoadImage(file_path)

\* MainWindow._open_image: the menu entry and its file dialog
OpenImage(file_path) == LoadImage(file_path)

\* _process_image: a click on "Process Image", which a disabled button
\* does not send
ProcessImage ==
    /\ image_input.process_button
    /\ Len(image_input.threads) < MaxThreads
    /\ image_input' =
          IF image_input.image_path = "" THEN image_input
          ELSE [image_input EXCEPT
                   !.process_button = FALSE,
                   !.processor_thread = Len(image_input.threads) + 1,
                   !.threads = Append(@, "running"),
                   !.delivered = Append(@, 0)]
    /\ message' = IF image_input.image_path = "" THEN "No Image" ELSE message
    /\ UNCHANGED <<face_widgets, current_color, current_face, cube_state, solution,
                   display, enabled, solver_calls>>
    /\ UNCHANGED <<kilominxVars, notationVars, configVars>>

\* ImageProcessorThread.run of thread t returns a state
RunComplete(t, state) ==
    /\ t \in Running(image_input)
    /\ image_input' =
          [image_input EXCEPT
              !.threads[t] = "finished",
              !.signals = Append(@, [name |-> "processing_complete", thread |-> t,
                                     cube_state |-> state])]
    /\ UNCHANGED <<face_widgets, current_color, current_face, cube_state, solution,
                   display, enabled, message, solver_calls>>
    /\ UNCHANGED <<kilominxVars, notationVars, configVars>>

\* ImageProcessorThread.run of thread t ends in an exception
RunError(t) ==
    /\ t \in Running(image_input)
    /\ image_input' =
          [image_input EXCEPT
              !.threads[t] = "finished",
              !.signals = Append(@, [name |-> "processing_error", thread |-> t,
                                     cube_state |-> <<>>])]
    /\ UNCHANGED <<face_widgets, current_color, current_face, cube_state, solution,
                   display, enabled, message, solver_calls>>
    /\ UNCHANGED <<kilominxVars, notationVars, configVars>>

\* _on_processing_complete, for the first signal waiting, and with it
\* MainWindow._on_image_processed
OnProcessingComplete ==
    /\ image_input.signals # <<>>
    /\ Head(image_input.signals).name = "processing_complete"
    /\ image_input' =
          [image_input EXCEPT
              !.signals = Tail(@),
              !.process_button = TRUE,
              !.delivered[Head(image_input.signals).thread] = @ + 1]
    /\ SetStateAndSolve(Head(image_input.signals).cube_state)

\* _on_processing_error, for the first signal waiting
OnProcessingError ==
    /\ image_input.signals # <<>>
    /\ Head(image_input.signals).name = "processing_error"
    /\ image_input' = [image_input EXCEPT !.signals = Tail(@),
                                          !.process_button = TRUE]
    /\ message' = "Processing Error"
    /\ UNCHANGED <<face_widgets, current_color, current_face, cube_state, solution,
                   display, enabled, solver_calls>>
    /\ UNCHANGED <<kilominxVars, notationVars, configVars>>

NextImage ==
    \/ \E file_path \in FilePaths : UploadImage(file_path)
    \/ \E file_path \in FilePaths : OpenImage(file_path)
    \/ ProcessImage
    \/ \E t \in 1..MaxThreads, state \in ExtractedStates : RunComplete(t, state)
    \/ \E t \in 1..MaxThreads : RunError(t)
    \/ OnProcessingComplete
    \/ OnProcessingError

ImageSpec == InitImage /\ [][NextImage]_vars

----------------------------------------------------------------------------
(* SolutionDisplayWidget on its own: display_solution is called with a     *)
(* state and a list of steps, then the user walks through the steps.       *)

\* the moves the step lists are made of
StepTokens == {<<"F">>, <<"U", "'">>, <<"B", "R", "2">>}

StepLists == Strings(StepTokens, MaxSteps)

\* the states shown: solved, two pairs of stickers exchanged, one sticker
\* recoloured
DisplayStates ==
    {RGBSolved, Swap(Swap(RGBSolved, 0, 1, 9, 4), 5, 2, 1, 15),
     [RGBSolved EXCEPT ![0][1] = COLORS[2]]}

InitDisplay ==
    /\ NoKilominx
    /\ NotationIdle
    /\ WindowConstructed
    /\ ConfigImported

\* solution_tab.display_solution(initial_state, solution_steps)
DisplaySolution(initial_state, solution_steps) ==
    /\ display' = display_solution(initial_state, solution_steps)
    /\ UNCHANGED <<face_widgets, current_color, current_face, cube_state, solution,
                   enabled, message, solver_calls, image_input>>
    /\ UNCHANGED <<kilominxVars, notationVars, configVars>>

\* a click on "Previous Step"; a disabled button sends no clicked signal
PrevClicked ==
    /\ display.prev_button
    /\ display' = prev_step(display)
    /\ UNCHANGED <<face_widgets, current_color, current_face, cube_state, solution,
                   enabled, message, solver_calls, image_input>>
    /\ UNCHANGED <<kilominxVars, notationVars, configVars>>

\* a click on "Next Step"
NextClicked ==
    /\ display.next_button
    /\ display' = next_step(display)
    /\ UNCHANGED <<face_widgets, current_color, current_face, cube_state, solution,
                   enabled, message, solver_calls, image_input>>
    /\ UNCHANGED <<kilominxVars, notationVars, configVars>>

\* a click on a row of steps_list
RowSelected(row) ==
    /\ display.shown
    /\ row \in 0..Len(display.solution_steps)
    /\ display' = set_current_row(display, row)
    /\ UNCHANGED <<face_widgets, current_color, current_face, cube_state, solution,
                   enabled, message, solver_calls, image_input>>
    /\ UNCHANGED <<kilominxVars, notationVars, configVars>>

NextDisplay ==
    \/ \E state \in DisplayStates, steps \in StepLists : DisplaySolution(state, steps)
    \/ PrevClicked
    \/ NextClicked
    \/ \E row \in 0..MaxSteps : RowSelected(row)

DisplaySpec == InitDisplay /\ [][NextDisplay]_vars

----------------------------------------------------------------------------
(* Config: calls of set and load_config on the global instance `config`,   *)
(* and other instances made meanwhile.                                     *)

\* the arguments section, key and value of the set calls
SetArgs == {<<"solver", "max_moves", 5>>, <<"ui", "theme", "dark">>,
            <<"plugins", "count", 1>>}

\* what json.load returns for the files given to load_config
LoadedConfigs ==
    {Dict([solver |-> Dict([timeout_seconds |-> Val(10)])]),
     Dict([colors |-> Dict([standard_colors |->
                               Dict([White |-> Val(<<250, 250, 250>>)])])]),
     Dict([ui |-> Val("compact")]),
     Dict([recent |-> Dict([count |-> Val(3)])]),
     Val("[]")}

InitConfig ==
    /\ NoKilominx
    /\ NotationIdle
    /\ WindowConstructed
    /\ ConfigImported

\* config.set(section, key, value)
ConfigSet(section, key, value) ==
    /\ config_heap' = set(config_heap, config_heap.instances[1], section, key, value)
    /\ UNCHANGED <<kilominxVars, notationVars, windowVars>>

\* config.load_config(config_file)
LoadConfig(loaded) ==
    /\ config_heap' = load_config(config_heap, config_heap.instances[1], loaded)
    /\ UNCHANGED <<kilominxVars, notationVars, windowVars>>

\* Config()
ConfigNew ==
    /\ Len(config_heap.instances) < MaxConfigs
    /\ config_heap' = NewConfig(config_heap)
    /\ UNCHANGED <<kilominxVars, notationVars, windowVars>>

NextConfig ==
    \/ \E a \in SetArgs : ConfigSet(a[1], a[2], a[3])
    \/ \E loaded \in LoadedConfigs : LoadConfig(loaded)
    \/ ConfigNew

ConfigSpec == InitConfig /\ [][NextConfig]_vars

----------------------------------------------------------------------------
(* The claims.                                                             *)

\* C1: round trip.  On a valid state, X followed by X' (and X' followed by
\* X) gives back the original sticker contents, for each of the 12 face
\* codes X.
C1_RoundTrip ==
    \A v \in DOMAIN Face :
        ( /\ validate_kilominx_state(start).valid
          /\ \/ moves = <<Face[v], Face[v] \o <<"'">> >>
             \/ moves = <<Face[v] \o <<"'">>, Face[v]>> )
        => (raised = "none" /\ State = start)

\* C2: order five.  The clockwise quarter turn X applied five times in a
\* row gives back the original state, for every face X.
C2_OrderFive ==
    \A v \in DOMAIN Face :
        (validate_kilominx_state(start).valid /\ moves = Repeat(Face[v], 5))
        => (raised = "none" /\ State = start)

\* C3: a quarter turn of a face hands the colours on its boundary from each
\* neighbour to the next one in the direction of the turn.  From the solved
\* state, after F (or F'), each neighbour of F in the adjacency table
\* therefore shows a colour of the neighbour before it (after it).
C3_NeighboursCycle ==
    ( /\ start = SolvedState
      /\ Len(moves) = 1
      /\ moves[1] \in {<<"F">>, <<"F", "'">>} )
    => LET nb == adjacency[0]
           n  == Len(nb)
           from(i) == IF moves[1] = <<"F">> THEN ((i + n - 2) % n) + 1 ELSE (i % n) + 1
       IN  \A i \in 1..n :
               \E p \in DOMAIN State[nb[i][1]], q \in DOMAIN pre[nb[from(i)][1]] :
                   State[nb[i][1]][p] = pre[nb[from(i)][1]][q]

\* C4: apply_move leaves its receiver as it was, for every state and every
\* token, and what it returns is another object that shares no list with it.
C4_InputNotMutated ==
    moves # <<>> =>
        /\ Deref(heap, m1) = pre
        /\ raised = "none" =>
              /\ m # m1
              /\ Range(heap.dicts[m]) \cap Range(heap.dicts[m1]) = {}

C4_Witness ==
    /\ moves # <<>>
    /\ raised = "none"
    /\ State # pre
    /\ Deref(heap, m1) = pre

\* C5: sticker count.  From the solved state (and from any state of 12
\* faces of 16 stickers holding each identifier 16 times) every state a
\* sequence of apply_move calls reaches has 12 faces and holds each of the 12
\* identifiers exactly 16 times.
C5_StickerCount ==
    (start = SolvedState \/ Balanced(start)) => Balanced(State)

C5_Witness ==
    /\ Balanced(start)
    /\ Len(moves) = 2
    /\ raised = "none"
    /\ State # start
    /\ State # pre

C9_Closure ==
    /\ d = 0 => validate_kilominx_state(State).valid
    /\ validate_kilominx_state(start).valid => validate_kilominx_state(State).valid

C9_Witness ==
    /\ d = 0
    /\ Len(moves) >= 2
    /\ \A i \in DOMAIN moves : moves[i] \in ValidTokens
    /\ raised = "none"
    /\ validate_kilominx_state(State).valid

ViolatesFaceCount(s) == Cardinality(DOMAIN s) # 12

ViolatesStickerCount(s) == \E f \in DOMAIN s : Len(s[f]) # 16

ViolatesColourCounts(s) ==
    \/ Cardinality(ColoursOf(s)) # 12
    \/ \E c \in ColoursOf(s) : Count(s, c) # 16

\* C11: the validator checks face count, then per-face sticker count, then
\* colour counts, and stops at the first check that fails: the reason of a
\* state that violates several checks is the one of the earliest violated
\* check, and a rejection is a returned pair (False, reason).
C11_CheckOrder ==
    LET v == validate_kilominx_state(State)
    IN  /\ v.valid \in BOOLEAN
        /\ ViolatesFaceCount(State) => (~v.valid /\ v.reason[1] = "faces")
        /\ (~ViolatesFaceCount(State) /\ ViolatesStickerCount(State))
              => (~v.valid /\ v.reason[1] = "stickers")
        /\ ( /\ ~ViolatesFaceCount(State)
             /\ ~ViolatesStickerCount(State)
             /\ ViolatesColourCounts(State) )
              => (~v.valid /\ v.reason[1] \in {"colors", "count"})

C11_Witness ==
    /\ ViolatesFaceCount(State)
    /\ ViolatesStickerCount(State)
    /\ ViolatesColourCounts(State)
    /\ validate_kilominx_state(State) = [valid |-> FALSE, reason |-> <<"faces", 11>>]
    /\ moves # <<>>
    /\ raised = "none"

RECURSIVE Closure(_)
\* the states that sequences of apply_move calls with tokens of the notation
\* reach from the states of S
Closure(S) ==
    LET T == S \cup {After(s, tok) : s \in S, tok \in ValidTokens}
    IN  IF T = S THEN S ELSE Closure(T)

ReachableFromSolved == Closure({SolvedState})

\* the colours o shows where s shows colour c
ShownFor(s, o, c) ==
    UNION {{o[f][i] : i \in {j \in DOMAIN s[f] : s[f][j] = c}} : f \in DOMAIN s}

\* s is o with the colours renamed one to one
SameUpToNaming(s, o) ==
    /\ DOMAIN s = DOMAIN o
    /\ \A f \in DOMAIN s : Len(s[f]) = Len(o[f])
    /\ \A c \in ColoursOf(s) : Cardinality(ShownFor(s, o, c)) = 1
    /\ \A c \in ColoursOf(o) : Cardinality(ShownFor(o, s, c)) = 1

C16_IsSolvedIffUniform ==
    is_solved(State) <=> Uniform(State)

\* C17: the adjacency table of an instance has an entry for each of the 12
\* faces, each entry lists exactly 5 neighbours, and whenever A lists B, B
\* lists A.
C17_AdjacencyComplete ==
    m # 0 =>
        /\ DOMAIN adjacency = FaceValues
        /\ \A a \in DOMAIN adjacency :
              /\ Cardinality({adjacency[a][i][1] : i \in DOMAIN adjacency[a]}) = 5
              /\ \A i \in DOMAIN adjacency[a] :
                    LET b == adjacency[a][i][1]
                    IN  /\ b \in DOMAIN adjacency
                        /\ \E j \in DOMAIN adjacency[b] : adjacency[b][j][1] = a

RECURSIVE ScanFrom(_, _, _, _, _, _)
\* the whitespace-separated words outside comments, in order, and the
\* number of comments of a string from character k on; a comment runs from
\* a '#' outside a comment to the end of its line
ScanFrom(alg, k, words, word, comments, in_comment) ==
    IF k > Len(alg) THEN [words |-> Flush(words, word), comments |-> comments]
    ELSE IF in_comment
    THEN ScanFrom(alg, k + 1, words, word, comments, alg[k] # "\n")
    ELSE IF alg[k] = "#"
    THEN ScanFrom(alg, k + 1, Flush(words, word), <<>>, comments + 1, TRUE)
    ELSE IF isspace(alg[k])
    THEN ScanFrom(alg, k + 1, Flush(words, word), <<>>, comments, FALSE)
    ELSE ScanFrom(alg, k + 1, words, Append(word, alg[k]), comments, FALSE)

\* C18: the tokens parse_algorithm returns that are no comments are exactly
\* the whitespace-separated words outside comments, in input order, and each
\* comment, from its '#' to the end of its line, is exactly one token, which
\* begins with '#'; also for a '#' glued to a move and a '#' in a comment.
C18_Tokenisation ==
    npc = "parsed" =>
        LET scan == ScanFrom(algorithm.value, 1, <<>>, <<>>, 0, FALSE)
            word(t) == ~startswith_hash(t)
        IN  /\ SelectSeq(parts, word) = scan.words
            /\ Len(SelectSeq(parts, startswith_hash)) = scan.comments

\* the turn amount of a modifier on a five-fold face, in fifths of a turn
Fifths(mod) == IF mod = <<"'">> THEN 4 ELSE IF mod = <<"2">> THEN 2 ELSE 1

\* C19: when simplify_algorithm merges two consecutive moves on one face,
\* the move _combine_moves returns (or the cancellation) stands for the sum
\* of the two turn amounts modulo 5, for every pair of modifiers.
C19_CombineModFive ==
    (combined # <<>> /\ combined[1] \in ValidTokens /\ combined[2] \in ValidTokens) =>
        LET sum == (Fifths(mod_of(combined[1])) + Fifths(mod_of(combined[2]))) % 5
            c == combined[3]
        IN  IF c.none THEN sum = 0
            ELSE /\ FaceCode(c.move) = FaceCode(combined[1])
                 /\ sum = Fifths(mod_of(c.move))

\* the tokens simplify_algorithm starts from
InputTokens ==
    IF algorithm.kind = "str" THEN parse_algorithm(algorithm.value) ELSE algorithm.value

\* C20: for an input of move tokens without comments, the list
\* simplify_algorithm returns has no two adjacent moves on the same face;
\* a pair of adjacent moves that cancel out is not in it.
C20_NoAdjacentSameFace ==
    ( /\ npc = "returned"
      /\ \A i \in DOMAIN InputTokens : InputTokens[i] \in ValidTokens )
    => \A i \in 1..(Len(smoves) - 1) : FaceCode(smoves[i]) # FaceCode(smoves[i + 1])

\* C13: validate before solve.  Whatever states the colour picker and the
\* image processing deliver to MainWindow, solve_kilominx is called only on
\* the cube_state that validate_kilominx_state has just accepted; a rejected
\* or empty state never reaches the solver.
C13_ValidateBeforeSolve ==
    /\ \A i \in DOMAIN solver_calls :
          /\ solver_calls[i].arg = cube_state
          /\ DOMAIN cube_state # {}
          /\ validate_kilominx_state(cube_state).valid
    /\ message \in {"Invalid State", "Invalid Configuration"} => solver_calls = <<>>

C13_Witness ==
    /\ solver_calls # <<>>
    /\ validate_kilominx_state(cube_state).valid
    /\ face_widgets[1][20] = COLORS[4]
    /\ enabled

\* C14: the colour picker supplies, for each of the 12 faces, a colour list
\* of the length the validator requires per face (16), so that a state
\* _on_solve_clicked emits passes the validator's sticker-count check.
C14_PickerSlotCount ==
    (DOMAIN cube_state # {} /\ cube_state = get_cube_state(face_widgets))
    => /\ DOMAIN cube_state = FaceValues
       /\ \A f \in DOMAIN cube_state : Len(cube_state[f]) = stickers_per_face
       /\ validate_kilominx_state(cube_state).reason[1] # "stickers"

\* C15: for every validated state the solver is called on, solve_kilominx
\* returns a move sequence whose replay through apply_move reaches the
\* solved state exactly; for a solved state it returns the empty sequence.
C15_SolverReplay ==
    \A i \in DOMAIN solver_calls :
        /\ solver_calls[i].raised = "none"
        /\ Uniform(Replay(solver_calls[i].arg, solver_calls[i].steps))
        /\ Uniform(solver_calls[i].arg) => solver_calls[i].steps = <<>>

\* C21: simplify_algorithm preserves the effect.  For a state and a list of
\* move tokens (one of the 12 face codes with no modifier, ' or 2), the
\* moves simplify_algorithm returns, replayed with apply_move, give the same
\* state as the moves it was given.
C21_SimplifyPreservesEffect ==
    ( /\ npc = "returned"
      /\ \A i \in DOMAIN InputTokens : InputTokens[i] \in ValidTokens )
    => \A s \in {SolvedState, Scrambled} :
          Replay(s, smoves) = Replay(s, InputTokens)

\* C22: simplify_algorithm is idempotent.  For a list of move tokens, calling
\* simplify_algorithm on the list it has returned gives that list again.
C22_SimplifyIdempotent ==
    ( /\ npc = "returned"
      /\ \A i \in DOMAIN InputTokens : InputTokens[i] \in ValidTokens )
    => simplify_algorithm([kind |-> "list", value |-> smoves]) = smoves

\* C23: simplify_algorithm terminates on every list of move and comment
\* tokens.  Each pass through the loop body either advances the index and
\* leaves the list alone, or keeps the index and makes the list one shorter
\* (a merge, after which the combined move is looked at again), so the
\* distance len(moves) - i goes down with every pass and stays above 0.
C23_SimplifyTerminates ==
    [][(npc = "loop" /\ npc' = "loop") =>
          /\ \/ si' = si + 1 /\ smoves' = smoves
             \/ si' = si /\ Len(smoves') = Len(smoves) - 1
          /\ Len(smoves') - si' < Len(smoves) - si
          /\ Len(smoves') - si' >= 1]_vars

\* three moves on one face have been merged into one, the combined move of
\* the first merge having been looked at again
C23_Witness ==
    /\ npc = "returned"
    /\ Len(InputTokens) = 3
    /\ Len(smoves) = 1
    /\ si = 0

\* C24: to_human_readable describes every well-formed token correctly.  For
\* a token made of one of the 12 face codes and a modifier (none, ' or 2),
\* the description names that face's full name and that modifier's
\* direction; the longest face code is matched before the modifier is read.
C24_HumanReadable ==
    npc = "described" =>
        \A i \in DOMAIN InputTokens :
            \A f \in DOMAIN FACE_NAMES, md \in DOMAIN MODIFIERS :
                InputTokens[i] = FACE_NAMES[f][1] \o MODIFIERS[md][1]
                => parts[i] = <<"Turn the ", FACE_NAMES[f][2], " face ",
                                MODIFIERS[md][2]>>

\* the counter-clockwise turn of the two-character face UL was described
C24_Witness ==
    /\ npc = "described"
    /\ InputTokens = << <<"U", "L", "'">> >>
    /\ parts = << <<"Turn the ", "Up-Left", " face ", "counter-clockwise">> >>

\* C25: after display_solution(initial_state, steps) the state stored for
\* step k, 1 <= k <= len(steps), is the result of applying the first k moves
\* to the initial state (and so differs from the state of step k - 1 when
\* move k changes the puzzle).
C25_StoredStates ==
    display.shown =>
        \A k \in 1..Len(display.solution_steps) :
            display.current_states[k + 1]
                = Replay(display.initial_state, SubSeq(display.solution_steps, 1, k))

\* C26: after display_solution with n steps, under any sequence of Previous
\* clicks, Next clicks and row selections, 0 <= current_step <= n, there are
\* n + 1 stored states, Previous is enabled exactly when current_step > 0
\* and Next exactly when current_step < n.
C26_Navigation ==
    display.shown =>
        LET n == Len(display.solution_steps)
        IN  /\ 0 <= display.current_step
            /\ display.current_step <= n
            /\ Len(display.current_states) = n + 1
            /\ display.prev_button <=> display.current_step > 0
            /\ display.next_button <=> display.current_step < n

\* the last of two steps is shown: Next has gone from enabled to disabled
C26_Witness ==
    /\ display.shown
    /\ Len(display.solution_steps) = 2
    /\ display.current_step = 2
    /\ display.steps_row = 2
    /\ display.prev_button
    /\ ~display.next_button

\* C27: no stale solution.  Whenever the Solution tab and the Save action
\* are enabled, the stored solution_steps and the solution displayed were
\* computed from the current cube_state; after a state has been rejected or
\* has failed to solve, no solution of an earlier state is presented or can
\* be saved.
C27_NoStaleSolution ==
    /\ enabled => /\ solution.has
                  /\ display.shown
                  /\ display.initial_state = cube_state
                  /\ display.solution_steps = solution.steps
                  /\ solver_calls # <<>>
                  /\ solver_calls[Len(solver_calls)].arg = cube_state
                  /\ solver_calls[Len(solver_calls)].steps = solution.steps
    /\ message \in {"Invalid State", "Invalid Configuration", "Solver Error"}
       => ~enabled

\* C28: at most one image-processing worker runs at a time, under every
\* interleaving of Upload Image or load_image, clicks on Process Image and
\* the workers' completion and error signals: no ImageProcessorThread is
\* started while an earlier one has neither completed nor failed, every run
\* delivers at most one state, and the Process button is disabled for the
\* whole of a run.
C28_OneWorker ==
    /\ Cardinality(Running(image_input)) <= 1
    /\ Running(image_input) # {} => ~image_input.process_button
    /\ \A t \in DOMAIN image_input.delivered : image_input.delivered[t] <= 1

\* C29: after m = MasterKilominx(d), set_sticker calls on m leave the
\* caller's d as it was; after m2 = m1.apply_move(x), set_sticker calls on
\* m2 leave the state of m1 as it was.
C29_SetStickerFrame ==
    /\ d # 0 => Deref(heap, d) = start
    /\ (moves # <<>> /\ raised = "none") => Deref(heap, m1) = pre

\* C30: after any sequence of set and load_config calls on one Config
\* instance, DEFAULT_CONFIG is as it was written, and every other instance,
\* made before or after the calls, still returns the default values from get.
C30_DefaultsFrame ==
    /\ Deep(config_heap, Ref(config_heap.default)) = DEFAULT_CONFIG
    /\ \A i \in 2..Len(config_heap.instances) :
          \A section \in DOMAIN DEFAULT_CONFIG.items :
              \A key \in DOMAIN DEFAULT_CONFIG.items[section].items :
                  Deep(config_heap,
                       get(config_heap, config_heap.instances[i], section, key))
                      = DEFAULT_CONFIG.items[section].items[key]

====
